---------------------------- MODULE Spec2Model ----------------------------
(***************************************************************************)
(* Transition engine of the 3D tile visualisation (transform.js): the     *)
(* module-level activeTweens array, the TWEEN main group that update()     *)
(* steps, and the live poses of the tiles the tweens write to.             *)
(*                                                                         *)
(* Numbers are JavaScript doubles in the program.  The model keeps their   *)
(* shape at a small width: a number is an integer count of quanta of       *)
(* 2^-FracBits, and every arithmetic result is rounded to the nearest      *)
(* value with at most MantBits significant bits (ties to even), the way    *)
(* IEEE-754 rounds to 53 bits.                                             *)
(***************************************************************************)
EXTENDS Integers, Sequences, FiniteSets, TLC

VARIABLES
    now,           \* performance.now(), in ticks
    pose,          \* the live position and rotation of every tile
    activeTweens,  \* transform.js: let activeTweens = []
    group,         \* the tweens of TWEEN's main group, in insertion order
    playing,       \* the tweens whose _isPlaying is true
    last,          \* the last call: what it was, what it logged and returned
    cur,           \* history: the last call that passed transform's guards
    phase,         \* history: the updates seen since that call
    wroteStale,    \* history: update stepped a tween stopAllTweens had dropped
    calls,         \* history: the number of calls that passed the guards
    count,         \* layouts.js: the argument of generateLayoutTargets
    layoutTargets, \* main.js: let layoutTargets = null, then what it returned
    currentLayout, \* ui.js: let currentLayout = 'table'
    activeButtons, \* ui.js: the layouts whose button has the class 'active'
    uiTargets,     \* ui.js: let layoutTargets = null, then initUI's targets
    uiObjects,     \* ui.js: let objects = [], then initUI's sceneObjects
    listeners,     \* ui.js: the click listeners initUI has put on each button
    isInitialized, \* main.js: let isInitialized = false
    handler,       \* main.js: where the handler of each token event stands
    view,          \* main.js: the section showLogin / showApp left visible
    renderers,     \* scene.js: the renderers initScene has put in #container
    fetchPc,       \* sheets.js: where the call of fetchPeopleData stands
    requests,      \* sheets.js: the ranges whose URL has been fetched, in order
    replies,       \* sheets.js: what each fetch settled with, in order
    lastError,     \* sheets.js: let lastError = null
    settled        \* sheets.js: what the promise of fetchPeopleData settled with

vars == <<now, pose, activeTweens, group, playing, last, cur, phase,
          wroteStale, calls, count, layoutTargets, currentLayout,
          activeButtons, uiTargets, uiObjects, listeners, isInitialized,
          handler, view, renderers, fetchPc, requests, replies, lastError,
          settled>>

\* the state of the modules around the engine
ui == <<currentLayout, activeButtons, uiTargets, uiObjects, listeners>>
boot == <<isInitialized, handler, view, renderers>>
sheets == <<fetchPc, requests, replies, lastError, settled>>
host == <<count, layoutTargets, ui, boot, sheets>>

-----------------------------------------------------------------------------
(* Bounds *)

MaxTime == 2
MaxCalls == 2
MaxTokens == 3
MaxRows == 3
DurShort == 1
DurLong == 2
MantBits == 4
FracBits == 4
WeightFracBits == 8

Items == {1, 2}

\* the googleTokenReceived events of a run
Tokens == 1..MaxTokens

-----------------------------------------------------------------------------
(* Floating-point numbers at a small width *)

RECURSIVE Pow2(_)
Pow2(n) == IF n <= 0 THEN 1 ELSE 2 * Pow2(n - 1)

ONE == Pow2(FracBits)

Abs(x) == IF x < 0 THEN -x ELSE x

\* a / d rounded to the nearest integer, ties to the even one (a >= 0, d > 0)
RoundHalfEven(a, d) ==
    LET q == a \div d
        r == a % d
    IN  IF 2 * r < d THEN q
        ELSE IF 2 * r > d THEN q + 1
        ELSE IF q % 2 = 0 THEN q ELSE q + 1

\* the exponent at which a / d fits MantBits bits
RECURSIVE Expo(_, _, _)
Expo(a, d, k) ==
    IF a < d * Pow2(MantBits + k) THEN k ELSE Expo(a, d, k + 1)

\* num / den (den > 0) rounded to the nearest representable number
Fl(num, den) ==
    LET a == Abs(num)
        k == Expo(a, den, 0)
        m == RoundHalfEven(a, den * Pow2(k)) * Pow2(k)
    IN  IF num < 0 THEN -m ELSE m

FAdd(a, b) == Fl(a + b, 1)
FSub(a, b) == Fl(a - b, 1)
FMul(a, b) == Fl(a * b, ONE)

-----------------------------------------------------------------------------
(* TWEEN: easing and interpolation *)

\* TWEEN.Easing.Cubic.InOut
CubicInOut(amount) ==
    LET a2 == FMul(amount, 2 * ONE)
    IN  IF a2 < ONE
        THEN FMul(FMul(FMul(ONE \div 2, a2), a2), a2)
        ELSE LET a3 == FSub(a2, 2 * ONE)
             IN  FMul(ONE \div 2, FAdd(FMul(FMul(a3, a3), a3), 2 * ONE))

\* Tween._updateProperties: object[p] = start + (end - start) * value
Interpolate(start, end, value) == FAdd(start, FMul(FSub(end, start), value))

\* Tween.update: elapsed = (time - startTime) / duration, clamped to 1
Elapsed(tw, time) ==
    IF tw.duration = 0 THEN ONE
    ELSE LET e == Fl((time - tw.startTime) * ONE, tw.duration)
         IN  IF e > ONE THEN ONE ELSE e

TweenValue(tw, time) ==
    LET v == CubicInOut(Elapsed(tw, time))
    IN  [k \in 1..3 |-> Interpolate(tw.from[k], tw.to[k], v)]

-----------------------------------------------------------------------------
(* Inputs *)

Vec(x, y, z) == <<x, y, z>>
Zero == Vec(0, 0, 0)
MkPose(p, r) == [position |-> p, rotation |-> r]

\* a missing (null / undefined) entry of an objects or targets array
NullItem == 0
NullPose == [position |-> <<>>, rotation |-> <<>>]

\* three layouts, one pose per item: the tiles rest in LayoutA when laid out
\* by the caller, and LayoutB and LayoutC are the target sets of the calls
LayoutA == << MkPose(Vec(40, -24, 0), Zero), MkPose(Vec(-40, -24, 0), Zero) >>
LayoutB == << MkPose(Vec(1, 3, -16), Vec(8, 0, -2)),
              MkPose(Vec(-6, 20, 5), Vec(0, 12, 1)) >>
LayoutC == << MkPose(Vec(12, -7, 30), Vec(0, 24, 0)),
              MkPose(Vec(-12, 9, -30), Vec(0, -24, 0)) >>

Arr(s) == [isArray |-> TRUE, elems |-> s]
NotArray == [isArray |-> FALSE, elems |-> <<>>]

AllItems == Arr([i \in Items |-> i])

Call(o, t, d) == [objects |-> o, targets |-> t, duration |-> d]

\* the calls of transform the model makes: the well-formed ones, the ones with
\* a missing entry, and one or two for each guard that turns a call away
CallArgs ==
    { Call(AllItems, Arr(LayoutB), DurLong),
      Call(AllItems, Arr(LayoutC), DurShort),
      Call(AllItems, Arr(LayoutC), 0),
      Call(Arr(<<1>>), Arr(<<LayoutB[1]>>), DurShort),
      Call(AllItems, Arr(<<LayoutB[1], NullPose>>), DurLong),
      Call(Arr(<<NullItem>>), Arr(<<LayoutB[1]>>), DurLong),
      Call(NotArray, Arr(LayoutB), DurLong),
      Call(AllItems, NotArray, DurLong),
      Call(Arr(<<>>), NotArray, DurLong),
      Call(Arr(<<>>), Arr(LayoutB), DurLong),
      Call(Arr(<<>>), Arr(<<>>), DurLong),
      Call(AllItems, Arr(<<LayoutB[1]>>), DurLong),
      Call(Arr(<<1>>), Arr(LayoutC), DurShort) }

-----------------------------------------------------------------------------
(* layouts.js *)

\* LAYOUT_CONSTANTS.  The coordinates of the table and of the grid are
\* multiples of 5 below 2^53, and so are the scaled vertices of the
\* tetrahedron: a double holds them exactly, and the model computes them in
\* the integers, doubled where the code adds a half.
TABLE_X_SPACING == 250
TABLE_Y_SPACING == 320
TABLE_COLS == 20
TABLE_ROWS == 10
HELIX_RADIUS == 500
HELIX_VERTICAL_STEP == 40
HELIX_STRAND_OFFSET == 20
GRID_X_SPACING == 250
GRID_Y_SPACING == 320
GRID_Z_SPACING == 250
GRID_X_COUNT == 5
GRID_Y_COUNT == 4
GRID_Z_COUNT == 10
\* TETRA.SCALE is 3.5 = TETRA_SCALE_NUM / TETRA_SCALE_DEN
TETRA_SCALE_NUM == 7
TETRA_SCALE_DEN == 2
TETRA_NORMAL_OFFSET == 50

\* a % b of JavaScript: the sign of the result is the sign of a (b > 0)
JsRem(a, b) == IF a >= 0 THEN a % b ELSE 0 - ((0 - a) % b)

\* Math.ceil(a / b) for b > 0
CeilDiv(a, b) == 0 - ((0 - a) \div b)

\* (index - n / 2 + 0.5) * spacing
Centred(index, n, spacing) == ((2 * index - n + 1) * spacing) \div 2

\* (n / 2 - index - 0.5) * spacing
CentredDown(index, n, spacing) == ((n - 2 * index - 1) * spacing) \div 2

\* a table whose rows wrap around after ROWS
TableTargetWrapped(i) ==
    LET col == i % TABLE_COLS
        row == (i \div TABLE_COLS) % TABLE_ROWS
    IN  MkPose(Vec(Centred(col, TABLE_COLS, TABLE_X_SPACING),
                   CentredDown(row, TABLE_ROWS, TABLE_Y_SPACING), 0), Zero)

\* the body of the loop of generateTableLayout
TableTarget(i) ==
    LET col == i % TABLE_COLS
        row == i \div TABLE_COLS
    IN  MkPose(Vec(Centred(col, TABLE_COLS, TABLE_X_SPACING),
                   CentredDown(row, TABLE_ROWS, TABLE_Y_SPACING), 0), Zero)

\* for (let i = 0; i < count; i++) targets.push(target): target i of the code
\* is element i + 1 of the sequence
generateTableLayout(n) == [j \in 1..n |-> TableTarget(j - 1)]

\* -1 + (2 * i) / count as the code computes it: the quotient rounded, then
\* the sum rounded
acosArgument(i, n) == FAdd(0 - ONE, Fl(2 * i * ONE, n))

\* Math.acos(x) is NaN for x outside [-1, 1], and with it the whole pose
acosIsNaN(x) == x < 0 - ONE \/ x > ONE

\* a sphere whose first item is one step above the pole
SphereTargetFromOne(i, n) ==
    [cosPhi |-> <<2 * (i + 1) - n, n>>, arg |-> acosArgument(i + 1, n),
     isNaN |-> acosIsNaN(acosArgument(i + 1, n))]

\* the body of the loop of generateSphereLayout: the argument of Math.acos,
\* -1 + (2 * i) / count, as the fraction (2 * i - count) / count and as the
\* number computed, and whether the pose is NaN
SphereTarget(i, n) ==
    [cosPhi |-> <<2 * i - n, n>>, arg |-> acosArgument(i, n),
     isNaN |-> acosIsNaN(acosArgument(i, n))]

generateSphereLayout(n) == [j \in 1..n |-> SphereTarget(j - 1, n)]

\* half as many steps as items, rounded down
strandStepsFloor(n) == n \div 2

\* Math.ceil(count / 2)
strandSteps(n) == CeilDiv(n, 2)

\* ((strandSteps - 1) * VERTICAL_STEP) / 2
centerOffset(n) == ((strandSteps(n) - 1) * HELIX_VERTICAL_STEP) \div 2

\* the body of the loop of generateHelixLayout: x and z are the radius times
\* the cosine and the sine of k * TURN_ANGLE (+ PI on strand 1)
HelixTarget(i, n) ==
    LET strand == i % 2
        k == i \div 2
    IN  [strand |-> strand, k |-> k,
         radius |-> HELIX_RADIUS + (IF strand = 0 THEN HELIX_STRAND_OFFSET
                                                  ELSE 0 - HELIX_STRAND_OFFSET),
         y |-> k * HELIX_VERTICAL_STEP - centerOffset(n)]

generateHelixLayout(n) == [j \in 1..n |-> HelixTarget(j - 1, n)]

\* a grid whose layers wrap around after Z_COUNT
GridTargetWrapped(i) ==
    LET x == i % GRID_X_COUNT
        y == (i \div GRID_X_COUNT) % GRID_Y_COUNT
        z == (i \div (GRID_X_COUNT * GRID_Y_COUNT)) % GRID_Z_COUNT
    IN  MkPose(Vec(Centred(x, GRID_X_COUNT, GRID_X_SPACING),
                   CentredDown(y, GRID_Y_COUNT, GRID_Y_SPACING),
                   Centred(z, GRID_Z_COUNT, GRID_Z_SPACING)), Zero)

\* the body of the loop of generateGridLayout
GridTarget(i) ==
    LET x == i % GRID_X_COUNT
        y == (i \div GRID_X_COUNT) % GRID_Y_COUNT
        z == i \div (GRID_X_COUNT * GRID_Y_COUNT)
    IN  MkPose(Vec(Centred(x, GRID_X_COUNT, GRID_X_SPACING),
                   CentredDown(y, GRID_Y_COUNT, GRID_Y_SPACING),
                   Centred(z, GRID_Z_COUNT, GRID_Z_SPACING)), Zero)

generateGridLayout(n) == [j \in 1..n |-> GridTarget(j - 1)]

\* new THREE.Vector3(x, y, z).multiplyScalar(SCALE)
Scaled(v) == [c \in 1..3 |-> (v[c] * TETRA_SCALE_NUM) \div TETRA_SCALE_DEN]

\* the vertices of the tetrahedron, indexed from 0 as in the code
vertices ==
    [v \in 0..3 |->
        Scaled(CASE v = 0 -> Vec(0, 520, 0)
                 [] v = 1 -> Vec(-420, -320, -320)
                 [] v = 2 -> Vec(420, -320, -320)
                 [] v = 3 -> Vec(0, -320, 520))]

faces ==
    [f \in 0..3 |-> CASE f = 0 -> <<0, 1, 2>>
                      [] f = 1 -> <<0, 2, 3>>
                      [] f = 2 -> <<0, 3, 1>>
                      [] f = 3 -> <<1, 3, 2>>]

subVectors(a, b) == [c \in 1..3 |-> a[c] - b[c]]

crossVectors(a, b) ==
    Vec(a[2] * b[3] - a[3] * b[2], a[3] * b[1] - a[1] * b[3],
        a[1] * b[2] - a[2] * b[1])

Dot(a, b) == a[1] * b[1] + a[2] * b[2] + a[3] * b[3]

RECURSIVE Gcd(_, _)
Gcd(a, b) == IF b = 0 THEN a ELSE Gcd(b, a % b)

\* Vector3.normalize keeps the direction of a vector; the model keeps it as
\* the shortest integer vector of that direction
normalize(v) ==
    LET g == Gcd(Gcd(Abs(v[1]), Abs(v[2])), Abs(v[3]))
    IN  IF g = 0 THEN v ELSE [c \in 1..3 |-> v[c] \div g]

\* crossVectors(edge1, edge2).normalize() of a face
FaceNormal(f) ==
    LET a == vertices[faces[f][1]]
        b == vertices[faces[f][2]]
        c == vertices[faces[f][3]]
    IN  normalize(crossVectors(subVectors(b, a), subVectors(c, a)))

\* the hammersley of generateTetraLayout: p is the sum of (t % 2) * i over
\* i = 1/2, 1/4, ..., kept as the fraction num / den
RECURSIVE RadicalInverse(_, _, _)
RadicalInverse(t, num, den) ==
    IF t > 0 THEN RadicalInverse(t \div 2, 2 * num + (t % 2), 2 * den)
    ELSE <<num, den>>

\* a sequence that starts at 1 / n
hammersleyFromOne(k, n) ==
    [uRaw |-> <<k + 1, n>>, vRaw |-> RadicalInverse(k, 0, 1)]

hammersley(k, n) == [uRaw |-> <<k, n>>, vRaw |-> RadicalInverse(k, 0, 1)]

\* the numbers of a sample are counted in units of 2^-WeightFracBits and
\* rounded, as every number above, to MantBits significant bits
WeightOne == Pow2(WeightFracBits)

\* the exponent at which the root of y fits MantBits bits
RECURSIVE SqrtExpo(_, _)
SqrtExpo(y, k) ==
    IF y < Pow2(2 * (MantBits + k)) THEN k ELSE SqrtExpo(y, k + 1)

\* Math.sqrt(x): the representable number nearest to the root of x, ties to
\* the even one
Sqrt(x) ==
    LET y == x * WeightOne
        k == SqrtExpo(y, 0)
        f == CHOOSE q \in 0..Pow2(MantBits) :
                 /\ q * q * Pow2(2 * k) <= y
                 /\ y < (q + 1) * (q + 1) * Pow2(2 * k)
        half == (2 * f + 1) * (2 * f + 1) * Pow2(2 * k)
        m == IF 4 * y < half THEN f
             ELSE IF 4 * y > half THEN f + 1
             ELSE IF f % 2 = 0 THEN f ELSE f + 1
    IN  m * Pow2(k)

\* the inner loop of generateTetraLayout up to the weights: uRaw = k / n and
\* vRaw = p as numbers, u = Math.sqrt(uRaw), v = vRaw * u, and the weights
\* 1 - u, u - v and v
barycentric(sample) ==
    LET uRaw == Fl(sample.uRaw[1] * WeightOne, sample.uRaw[2])
        vRaw == Fl(sample.vRaw[1] * WeightOne, sample.vRaw[2])
        u == Sqrt(uRaw)
        v == Fl(vRaw * u, WeightOne)
    IN  [uRaw |-> uRaw, vRaw |-> vRaw, u |-> u, v |-> v,
         weightA |-> Fl(WeightOne - u, 1),
         weightB |-> Fl(u - v, 1),
         weightC |-> v]

basePerFace(n) == n \div 4
remainder(n) == JsRem(n, 4)

\* a split that drops the remainder
itemsOnFaceNoRemainder(n, faceIndex) == basePerFace(n)

\* a split that hands the remainder to the last faces
itemsOnFaceExtraLast(n, faceIndex) ==
    basePerFace(n) + (IF faceIndex >= 4 - remainder(n) THEN 1 ELSE 0)

itemsOnFace(n, faceIndex) ==
    basePerFace(n) + (IF faceIndex < remainder(n) THEN 1 ELSE 0)

\* the body of the inner loop of generateTetraLayout: the sample of the face,
\* and the push of NORMAL_OFFSET along the normal of the face
TetraTarget(f, i, n) ==
    [face |-> f, sample |-> hammersley(i, n),
     weights |-> barycentric(hammersley(i, n)), normal |-> FaceNormal(f),
     offset |-> TETRA_NORMAL_OFFSET]

\* the iterations of the outer loop from faceIndex on
RECURSIVE TetraFaces(_, _)
TetraFaces(n, faceIndex) ==
    IF faceIndex >= 4 THEN <<>>
    ELSE [j \in 1..itemsOnFace(n, faceIndex) |->
             TetraTarget(faceIndex, j - 1, itemsOnFace(n, faceIndex))]
         \o TetraFaces(n, faceIndex + 1)

generateTetraLayout(n) == TetraFaces(n, 0)

\* the generateLayoutTargets of the earlier layouts.js, without the tetrahedron
generateLayoutTargetsEarlier(n) ==
    [table |-> generateTableLayout(n), sphere |-> generateSphereLayout(n),
     helix |-> generateHelixLayout(n), grid |-> generateGridLayout(n)]

generateLayoutTargets(n) ==
    [table |-> generateTableLayout(n), sphere |-> generateSphereLayout(n),
     helix |-> generateHelixLayout(n), grid |-> generateGridLayout(n),
     tetra |-> generateTetraLayout(n)]

\* let layoutTargets = null
NullTargets == <<>>

\* ui.js: the ids of LAYOUTS
LAYOUTS == {"table", "sphere", "helix", "grid", "tetra"}

-----------------------------------------------------------------------------
(* transform.js *)

\* a start that takes over the end value of the tween it replaces
MkTweenFromOldTarget(obj, chan, to, duration) ==
    LET old == {tw \in playing : tw.obj = obj /\ tw.chan = chan}
    IN  [obj |-> obj, chan |-> chan,
         from |-> IF old = {} THEN pose[obj][chan] ELSE (CHOOSE tw \in old : TRUE).to,
         to |-> to, duration |-> duration, startTime |-> now]

MkTween(obj, chan, to, duration) ==
    [obj |-> obj, chan |-> chan, from |-> pose[obj][chan], to |-> to,
     duration |-> duration, startTime |-> now]

\* createTweensForObject: the two tweens, in the order they are pushed
createTweensForObject(object, target, duration) ==
    << MkTween(object, "position", target.position, duration),
       MkTween(object, "rotation", target.rotation, duration) >>

\* !object || !targets[index]; an index past the end reads undefined
InvalidPair(o, t, i) ==
    \/ o.elems[i] = NullItem
    \/ i \notin DOMAIN t.elems
    \/ t.elems[i] = NullPose

\* the forEach of transform: the tweens created for indices i..Len
RECURSIVE NewTweens(_, _, _, _)
NewTweens(o, t, d, i) ==
    IF i > Len(o.elems) THEN <<>>
    ELSE (IF InvalidPair(o, t, i) THEN <<>>
          ELSE createTweensForObject(o.elems[i], t.elems[i], d))
         \o NewTweens(o, t, d, i + 1)

Range(s) == {s[i] : i \in DOMAIN s}

\* the guards without the comparison of the lengths
VerdictNoLengthCheck(o, t) ==
    IF ~o.isArray \/ ~t.isArray THEN "invalid"
    ELSE IF Len(o.elems) = 0 THEN "empty"
    ELSE "started"

\* the guards without the test for an empty objects array
VerdictNoEmptyCheck(o, t) ==
    IF ~o.isArray \/ ~t.isArray THEN "invalid"
    ELSE IF Len(o.elems) # Len(t.elems) THEN "mismatch"
    ELSE "started"

\* what transform's guards make of a call
Verdict(o, t) ==
    IF ~o.isArray \/ ~t.isArray THEN "invalid"
    ELSE IF Len(o.elems) = 0 THEN "empty"
    ELSE IF Len(o.elems) # Len(t.elems) THEN "mismatch"
    ELSE "started"

\* stopAllTweens: tween.stop() on every element, then a fresh array
StoppedPlaying == playing \ Range(activeTweens)
\* a stopAllTweens that empties the array and stops nothing
NotStoppedGroup == group

StoppedGroup == SelectSeq(group, LAMBDA tw : tw \notin Range(activeTweens))

\* history of a call: its arguments and time, what it found pending ("idle":
\* nothing, "unstepped": tweens no update had stepped yet, "midflight": tweens
\* already stepped) and the duration and items of the call it superseded
NoCall == [targets |-> <<>>, objects |-> <<>>, dur |-> -1, time |-> -1,
           found |-> "idle", prevDur |-> -1, prevObjects |-> <<>>]

Found ==
    IF group = <<>> THEN "idle"
    ELSE IF phase = "none" THEN "unstepped"
    ELSE "midflight"

\* console.error / console.warn of a call
Message(o, t) ==
    LET v == Verdict(o, t)
    IN  IF v # "started" THEN v
        ELSE IF \E i \in DOMAIN o.elems : InvalidPair(o, t, i) THEN "invalid-pair"
        ELSE "none"

transform(o, t, d) ==
    LET v == Verdict(o, t)
        made == NewTweens(o, t, d, 1)
    IN  /\ last' = [op |-> "transform", res |-> v, msg |-> Message(o, t),
                    ret |-> "undefined"]
        /\ IF v # "started"
           THEN UNCHANGED <<now, pose, activeTweens, group, playing, cur,
                            phase, wroteStale, calls>>
           ELSE /\ calls < MaxCalls
                /\ calls' = calls + 1
                /\ activeTweens' = made
                /\ group' = StoppedGroup \o made
                /\ playing' = StoppedPlaying \cup Range(made)
                /\ cur' = [targets |-> t.elems, objects |-> o.elems, dur |-> d,
                           time |-> now, found |-> Found,
                           prevDur |-> IF group = <<>> THEN -1 ELSE cur.dur,
                           prevObjects |-> IF group = <<>> THEN <<>>
                                           ELSE cur.objects]
                /\ phase' = "none"
                /\ UNCHANGED <<now, pose, wroteStale>>

Transform ==
    /\ \E c \in CallArgs : transform(c.objects, c.targets, c.duration)
    /\ UNCHANGED host

\* activeTweens.splice(activeTweens.indexOf(tw), 1)
RECURSIVE RemoveFirst(_, _)
RemoveFirst(s, x) ==
    IF s = <<>> THEN <<>>
    ELSE IF Head(s) = x THEN Tail(s)
    ELSE <<Head(s)>> \o RemoveFirst(Tail(s), x)

\* Tween.update(time) of one tween, on the state st the earlier tweens left
StepTween(tw, time, st) ==
    LET done == Elapsed(tw, time) = ONE
    IN  IF time < tw.startTime
        THEN [st EXCEPT !.keep = Append(@, tw)]
        ELSE [pose |-> [st.pose EXCEPT ![tw.obj][tw.chan] = TweenValue(tw, time)],
              active |-> IF done THEN RemoveFirst(st.active, tw) ELSE st.active,
              playing |-> IF done THEN st.playing \ {tw} ELSE st.playing,
              keep |-> IF done THEN st.keep ELSE Append(st.keep, tw),
              stale |-> st.stale \/ tw \notin Range(activeTweens)]

\* TWEEN.update(time): every tween of the group, in insertion order
RECURSIVE StepAll(_, _, _)
StepAll(g, time, st) ==
    IF g = <<>> THEN st ELSE StepAll(Tail(g), time, StepTween(Head(g), time, st))

update(time) ==
    LET st == StepAll(group, time,
                      [pose |-> pose, active |-> activeTweens, playing |-> playing,
                       keep |-> <<>>, stale |-> wroteStale])
    IN  /\ pose' = st.pose
        /\ activeTweens' = st.active
        /\ playing' = st.playing
        /\ group' = st.keep
        /\ wroteStale' = st.stale
        /\ phase' = IF cur = NoCall THEN "none"
                    ELSE IF time >= cur.time + cur.dur THEN "end"
                    ELSE "mid"
        /\ last' = [op |-> "update", res |-> "-", msg |-> "none", ret |-> "undefined"]
        /\ UNCHANGED <<now, cur, calls>>

Update == update(now) /\ UNCHANGED host

\* time passes; the clock is followed while a tween is pending
Tick ==
    /\ now < MaxTime
    /\ group # <<>>
    /\ now' = now + 1
    /\ UNCHANGED <<pose, activeTweens, group, playing, last, cur, phase,
                   wroteStale, calls>>
    /\ UNCHANGED host

\* the tiles at rest: as constructed, or laid out by the caller
RestPoses == { [i \in Items |-> MkPose(Zero, Zero)], [i \in Items |-> LayoutA[i]] }

\* the engine before any call
EngineInit ==
    /\ now = 0
    /\ pose \in RestPoses
    /\ activeTweens = <<>>
    /\ group = <<>>
    /\ playing = {}
    /\ last = [op |-> "init", res |-> "-", msg |-> "none", ret |-> "none"]
    /\ cur = NoCall
    /\ phase = "none"
    /\ wroteStale = FALSE
    /\ calls = 0

\* ui.js before initUI
UiAtRest ==
    /\ currentLayout = "table"
    /\ activeButtons = {}
    /\ uiTargets = NullTargets
    /\ uiObjects = Arr(<<>>)
    /\ listeners = 0

\* null, where an error or a settled value is expected
NoError == [kind |-> "null"]

\* main.js and scene.js once DOMContentLoaded is handled: the login section
\* shown, no token event yet
BootAtRest ==
    /\ isInitialized = FALSE
    /\ handler = [h \in Tokens |-> "unsent"]
    /\ view = "login"
    /\ renderers = 0

\* sheets.js before fetchPeopleData is called
SheetsAtRest ==
    /\ fetchPc = "idle"
    /\ requests = <<>>
    /\ replies = <<>>
    /\ lastError = NoError
    /\ settled = NoError

Init ==
    /\ EngineInit
    /\ count = 0
    /\ layoutTargets = NullTargets
    /\ UiAtRest
    /\ BootAtRest
    /\ SheetsAtRest

Next == Transform \/ Update \/ Tick

Spec == Init /\ [][Next]_vars

-----------------------------------------------------------------------------
(* The layout generators called on their own *)

MaxCount == 204
NegCounts == 2

\* the counts generateLayoutTargets is called with
Counts == (0 - NegCounts)..MaxCount

InitLayouts ==
    /\ EngineInit
    /\ pose = [i \in Items |-> MkPose(Zero, Zero)]
    /\ count \in Counts
    /\ layoutTargets = NullTargets
    /\ UiAtRest
    /\ BootAtRest
    /\ SheetsAtRest

\* layoutTargets = generateLayoutTargets(count): no statement of layouts.js
\* throws, the call hands back its object whatever the count
Generate ==
    /\ layoutTargets' = generateLayoutTargets(count)
    /\ last' = [op |-> "generateLayoutTargets", res |-> "-", msg |-> "none",
                ret |-> "targets"]
    /\ UNCHANGED <<now, pose, activeTweens, group, playing, cur, phase,
                   wroteStale, calls, count, ui, boot, sheets>>

NextLayouts == Generate

SpecLayouts == InitLayouts /\ [][NextLayouts]_vars

-----------------------------------------------------------------------------
(* ui.js *)

\* two more target sets of the width of the engine's numbers
LayoutD == << MkPose(Vec(-10, 6, 14), Zero), MkPose(Vec(10, 6, -14), Zero) >>
LayoutE == << MkPose(Vec(3, 28, -5), Vec(0, 2, 16)),
              MkPose(Vec(-3, -28, 5), Vec(0, -2, 16)) >>

\* the poses that stand for the targets of a layout in the engine, whose
\* numbers are too narrow for the coordinates layouts.js computes
StandIn ==
    [table |-> LayoutA, sphere |-> LayoutB, helix |-> LayoutC,
     grid |-> LayoutD, tetra |-> LayoutE]

\* a targets object as the engine sees it: one array per layout of the
\* object, as long as the array layouts.js made
AsTargets(made) ==
    [l \in DOMAIN made |-> Arr(SubSeq(StandIn[l], 1, Len(made[l])))]

\* const TRANSITION_DURATION = 2000
TRANSITION_DURATION == DurLong

\* the buttons initUI found: every button of LAYOUTS is in the document
buttons == LAYOUTS

\* updateActiveButton
updateActiveButton(layoutId) ==
    activeButtons' = (activeButtons \ buttons) \cup ({layoutId} \cap buttons)

\* switchLayout: the three early returns, then the button, the call of
\* transform inside the try, and the assignment that follows it; transform
\* has no throw, so the catch is never entered
switchLayout(layoutId) ==
    IF currentLayout = layoutId
    THEN UNCHANGED vars
    ELSE IF layoutId \notin DOMAIN uiTargets
    THEN /\ last' = [op |-> "switchLayout", res |-> "-", msg |-> "layout-not-found",
                     ret |-> "undefined"]
         /\ UNCHANGED <<now, pose, activeTweens, group, playing, cur, phase,
                        wroteStale, calls, host>>
    ELSE IF Len(uiObjects.elems) = 0
    THEN /\ last' = [op |-> "switchLayout", res |-> "-", msg |-> "no-objects",
                     ret |-> "undefined"]
         /\ UNCHANGED <<now, pose, activeTweens, group, playing, cur, phase,
                        wroteStale, calls, host>>
    ELSE /\ updateActiveButton(layoutId)
         /\ transform(uiObjects, uiTargets[layoutId], TRANSITION_DURATION)
         /\ currentLayout' = layoutId
         /\ UNCHANGED <<count, layoutTargets, uiTargets, uiObjects, listeners, boot,
                        sheets>>

\* a click on the button of a layout
Click == \E l \in LAYOUTS : switchLayout(l)

\* what initUI is called with: the tiles and the targets made for them, the
\* targets made for another number of tiles, the targets of which one layout
\* was made for another number of tiles, the targets of a layouts.js without
\* the tetrahedron, and no tiles at all
InitUIArgs ==
    { [targets |-> AsTargets(generateLayoutTargets(2)), sceneObjects |-> AllItems],
      [targets |-> AsTargets(generateLayoutTargets(1)), sceneObjects |-> AllItems],
      [targets |-> [AsTargets(generateLayoutTargets(2)) EXCEPT
                       !.helix = AsTargets(generateLayoutTargets(1)).helix],
       sceneObjects |-> AllItems],
      [targets |-> AsTargets(generateLayoutTargetsEarlier(2)), sceneObjects |-> AllItems],
      [targets |-> AsTargets(generateLayoutTargets(0)), sceneObjects |-> Arr(<<>>)] }

\* initUI(targets, sceneObjects), both given: the button of the default
\* layout gets the class 'active', every button one more click listener
initUI(targets, sceneObjects) ==
    /\ uiTargets' = targets
    /\ uiObjects' = sceneObjects
    /\ activeButtons' = activeButtons \cup ({"table"} \cap buttons)
    /\ currentLayout' = IF "table" \in buttons THEN "table" ELSE currentLayout
    /\ listeners' = listeners + 1

\* ui.js once initUI(targets, sceneObjects) has been called on it
AfterInitUI(targets, sceneObjects) ==
    /\ uiTargets = targets
    /\ uiObjects = sceneObjects
    /\ activeButtons = {"table"} \cap buttons
    /\ currentLayout = "table"
    /\ listeners = 1

InitUI ==
    /\ EngineInit
    /\ count = 0
    /\ layoutTargets = NullTargets
    /\ BootAtRest
    /\ SheetsAtRest
    /\ \E a \in InitUIArgs : AfterInitUI(a.targets, a.sceneObjects)

NextUI == Click \/ Update \/ Tick

SpecUI == InitUI /\ [][NextUI]_vars

-----------------------------------------------------------------------------
(* main.js *)

\* what fetchPeopleData comes back with: rows, no row, or an error
FetchOutcomes == {"rows", "empty", "error"}

Log(op, msg) == [op |-> op, res |-> "-", msg |-> msg, ret |-> "undefined"]

\* handleTokenReceived up to the await of fetchPeopleData: the token is
\* looked at, then initializeVisualization tests isInitialized, shows the
\* app section and sends the request
handleTokenReceived(h, accessToken) ==
    /\ handler[h] = "unsent"
    /\ IF ~accessToken
       THEN /\ handler' = [handler EXCEPT ![h] = "no-token"]
            /\ last' = Log("handleTokenReceived", "no-access-token")
            /\ UNCHANGED <<isInitialized, view>>
       ELSE IF isInitialized
       THEN /\ handler' = [handler EXCEPT ![h] = "skipped"]
            /\ last' = Log("initializeVisualization", "already-initialized")
            /\ UNCHANGED <<isInitialized, view>>
       ELSE /\ handler' = [handler EXCEPT ![h] = "awaiting"]
            /\ view' = "app"
            /\ last' = Log("initializeVisualization", "fetching")
            /\ UNCHANGED isInitialized
    /\ UNCHANGED <<now, pose, activeTweens, group, playing, cur, phase,
                   wroteStale, calls, count, layoutTargets, ui, renderers,
                   sheets>>

\* initializeVisualization from the await on, with what fetchPeopleData gave:
\* on an error or no row the login section comes back; on rows the tiles are
\* made (at the origin, in place of those of an earlier run), initScene puts
\* a renderer in the container, the targets are generated for the tiles,
\* initUI is called, transform sets the table layout, and only then
\* isInitialized becomes true
resume(h, outcome) ==
    /\ handler[h] = "awaiting"
    /\ handler' = [handler EXCEPT ![h] = IF outcome = "rows" THEN "initialized"
                                          ELSE "failed"]
    /\ IF outcome # "rows"
       THEN /\ view' = "login"
            /\ last' = Log("initializeVisualization", outcome)
            /\ UNCHANGED <<now, pose, activeTweens, group, playing, cur, phase,
                           wroteStale, calls, count, layoutTargets, ui,
                           isInitialized, renderers, sheets>>
       ELSE LET made == generateLayoutTargets(Len(AllItems.elems))
            IN  /\ renderers' = renderers + 1
                /\ count' = Len(AllItems.elems)
                /\ layoutTargets' = made
                /\ initUI(AsTargets(made), AllItems)
                /\ transform(AllItems, AsTargets(made).table, 0)
                /\ isInitialized' = TRUE
                /\ UNCHANGED <<view, sheets>>

\* a googleTokenReceived event is dispatched
TokenReceived == \E h \in Tokens, t \in BOOLEAN : handleTokenReceived(h, t)

\* the promise of a fetchPeopleData settles
FetchSettles == \E h \in Tokens, o \in FetchOutcomes : resume(h, o)

InitBoot ==
    /\ EngineInit
    /\ pose = [i \in Items |-> MkPose(Zero, Zero)]
    /\ count = 0
    /\ layoutTargets = NullTargets
    /\ UiAtRest
    /\ BootAtRest
    /\ SheetsAtRest

NextBoot == TokenReceived \/ FetchSettles

SpecBoot == InitBoot /\ [][NextBoot]_vars

-----------------------------------------------------------------------------
(* sheets.js *)

SHEET_RANGE == "A:Z"

\* the range formats fetchPeopleData tries, in the order of its for loop
rangeOptions == <<SHEET_RANGE, "A:Z", "Sheet1!A:Z", "Sheet 1!A:Z">>

\* the rows a response carries in data.values: none, the headers alone, or
\* the headers and data rows
RowCounts == 0..MaxRows

\* the statuses of a response that is not ok: the three the code names and
\* one it does not
Statuses == {400, 403, 404, 500}

Response(kind, status, mentions, rows) ==
    [kind |-> kind, status |-> status, mentions |-> mentions, rows |-> rows]

\* what the promise of fetch(url) brings: a response that is ok and whose body
\* reads as data with rows, one that is ok and whose body is no JSON, one that
\* is not ok, with its status and with whether errorMessage (error.message of
\* the body, else statusText) includes 'parse range', or a rejection, when the
\* network fails
Responses ==
    {Response("ok", 200, FALSE, n) : n \in RowCounts}
    \cup {Response("okNoJson", 200, FALSE, 0)}
    \cup {Response("notOk", st, m, 0) : st \in Statuses, m \in BOOLEAN}
    \cup {Response("rejected", 0, FALSE, 0)}

\* new Error(message): the text the code writes, the status it puts in the
\* text, and whether message.includes('parse range')
Error(text, status, mentions) ==
    [kind |-> "error", text |-> text, status |-> status, mentions |-> mentions]

Thrown(error) == [kind |-> "thrown", error |-> error]

\* return []  or  return parseSheetData(rows)
Returned(value, rows) == [kind |-> "returned", value |-> value, rows |-> rows]

\* a 400 taken for a range parsing error whatever its message
isRangeParsingErrorAnyBadRequest(r) == r.status = 400

\* response.status === 400 && errorMessage.includes('parse range')
isRangeParsingError(r) == r.status = 400 /\ r.mentions

\* what the body of the inner try throws for a response it does not return
\* on: fetch's own rejection, the SyntaxError of response.json(), or the
\* error made from the status
thrownInTry(r) ==
    IF r.kind = "rejected" THEN Error("Failed to fetch", 0, FALSE)
    ELSE IF r.kind = "okNoJson" THEN Error("SyntaxError", 0, FALSE)
    ELSE IF r.status = 403 THEN Error("Access denied", 403, FALSE)
    ELSE IF r.status = 404 THEN Error("Spreadsheet not found", 404, FALSE)
    ELSE Error("Sheets API error", r.status, r.mentions)

\* the outer catch: throw new Error(error.message || ...), the same message
\* in a new error (no message of the function is empty)
rethrow(error) ==
    /\ fetchPc' = "thrown"
    /\ settled' = Thrown(error)

\* the for loop from its head to the await of fetch, lastError being err:
\* the URL of the next range is fetched, and with no range left the loop is
\* over and lastError, or the fallback error, is thrown
nextRange(err) ==
    /\ lastError' = err
    /\ IF Len(requests) < Len(rangeOptions)
       THEN /\ requests' = Append(requests, rangeOptions[Len(requests) + 1])
            /\ fetchPc' = "awaiting"
            /\ UNCHANGED settled
       ELSE /\ rethrow(IF err # NoError THEN err
                       ELSE Error("Unable to parse any sheet range", 0, FALSE))
            /\ UNCHANGED requests

\* fetchPeopleData(accessToken) up to its first await
fetchPeopleData(accessToken) ==
    /\ fetchPc = "idle"
    /\ IF ~accessToken
       THEN /\ fetchPc' = "thrown"
            /\ settled' = Thrown(Error("Access token is required", 0, FALSE))
            /\ UNCHANGED <<requests, lastError>>
       ELSE nextRange(NoError)
    /\ UNCHANGED <<now, pose, activeTweens, group, playing, last, cur, phase,
                   wroteStale, calls, count, layoutTargets, ui, boot, replies>>

\* fetchPeopleData from the await of fetch on, with what the fetch brought r:
\* the rest of the try block, its catch, and the loop up to the next await
respond(r) ==
    /\ fetchPc = "awaiting"
    /\ replies' = Append(replies, r)
    /\ IF r.kind = "notOk" /\ isRangeParsingError(r)
       THEN nextRange(Error("Range parsing error", r.status, r.mentions))
       ELSE IF r.kind = "ok"
       THEN /\ fetchPc' = "returned"
            /\ settled' = IF r.rows <= 1 THEN Returned("[]", r.rows)
                          ELSE Returned("parseSheetData", r.rows)
            /\ UNCHANGED <<requests, lastError>>
       ELSE IF thrownInTry(r).mentions
       THEN nextRange(thrownInTry(r))
       ELSE /\ rethrow(thrownInTry(r))
            /\ UNCHANGED <<requests, lastError>>
    /\ UNCHANGED <<now, pose, activeTweens, group, playing, last, cur, phase,
                   wroteStale, calls, count, layoutTargets, ui, boot>>

\* the application calls fetchPeopleData
CallFetch == \E t \in BOOLEAN : fetchPeopleData(t)

\* the promise of a fetch settles
ResponseArrives == \E r \in Responses : respond(r)

InitFetch ==
    /\ EngineInit
    /\ pose = [i \in Items |-> MkPose(Zero, Zero)]
    /\ count = 0
    /\ layoutTargets = NullTargets
    /\ UiAtRest
    /\ BootAtRest
    /\ SheetsAtRest

NextFetch == CallFetch \/ ResponseArrives

\* the promise of every fetch settles: the browser resolves it with the
\* response or rejects it when the network fails
SpecFetch == InitFetch /\ [][NextFetch]_vars /\ WF_vars(ResponseArrives)

-----------------------------------------------------------------------------
(* Vocabulary of the properties *)

Engine == <<pose, activeTweens, group, playing>>

\* the indices of the last accepted call whose pair was well formed
ValidIndices ==
    {j \in DOMAIN cur.objects :
        cur.objects[j] # NullItem /\ j \in DOMAIN cur.targets
                                  /\ cur.targets[j] # NullPose}

\* every item of the last accepted call has the pose of its target
AtTargets == \A j \in ValidIndices : pose[cur.objects[j]] = cur.targets[j]

WholeSet(objects) == objects = AllItems.elems

TweensOf(set, i, chan) == {tw \in set : tw.obj = i /\ tw.chan = chan}

CountIn(seq, i, chan) ==
    Cardinality({k \in DOMAIN seq : seq[k].obj = i /\ seq[k].chan = chan})

Dist2(p, q) ==
    (p[1] - q[1]) * (p[1] - q[1]) + (p[2] - q[2]) * (p[2] - q[2])
        + (p[3] - q[3]) * (p[3] - q[3])

Accepted(c) ==
    /\ transform(c.objects, c.targets, c.duration)
    /\ calls' = calls + 1

LengthMismatch(c) ==
    /\ c.objects.isArray /\ c.targets.isArray
    /\ Len(c.objects.elems) # 0
    /\ Len(c.objects.elems) # Len(c.targets.elems)

MalformedPair(c) ==
    /\ c.objects.isArray /\ c.targets.isArray
    /\ Len(c.objects.elems) # 0
    /\ Len(c.objects.elems) = Len(c.targets.elems)
    /\ \E i \in DOMAIN c.objects.elems :
          c.objects.elems[i] = NullItem \/ c.targets.elems[i] = NullPose

-----------------------------------------------------------------------------
(* Properties *)

\* C1: a transition over all the items of duration DurLong, superseded before
\* any update by one of duration DurShort: once an update has run at or after
\* the end of the second, every item has exactly the pose of the second target
\* set, and no update ever wrote a pose from a tween of the superseded call.
C1_CancelledNeverSeen ==
    ( /\ cur.found = "unstepped"
      /\ cur.prevDur = DurLong /\ WholeSet(cur.prevObjects)
      /\ cur.dur = DurShort /\ WholeSet(cur.objects)
      /\ ValidIndices = DOMAIN cur.objects
      /\ phase = "end" )
    => (AtTargets /\ ~wroteStale)

\* C2: a call of duration 0 has set every item to its target when it returns,
\* and no later update changes the pose of those items.
C2_SnapInsideCall ==
    /\ []( (last.op = "transform" /\ last.res = "started" /\ cur.dur = 0)
           => AtTargets )
    /\ [][ (cur.dur = 0 /\ Update)
           => \A j \in ValidIndices : pose'[cur.objects[j]] = pose[cur.objects[j]] ]_vars

\* C3: a call with a non-array argument or with arrays of different lengths
\* hands its caller an error, MismatchedLength for the lengths, and never what
\* a successful call hands back.
C3_FailureReported ==
    /\ (last.op = "transform" /\ last.res = "mismatch")
          => last.ret = "MismatchedLength"
    /\ (last.op = "transform" /\ last.res \in {"invalid", "mismatch"})
          => last.ret # "undefined"

\* C4: a call turned away for a length mismatch changes no pose, no tween and
\* neither the active array nor the group: what was running keeps running.
C4_MismatchNoMutation ==
    [][ \A c \in CallArgs :
          (LengthMismatch(c) /\ transform(c.objects, c.targets, c.duration))
          => UNCHANGED Engine ]_vars

C4_Witness ==
    /\ last.op = "transform" /\ last.res = "mismatch"
    /\ Len(activeTweens) = 2 * Cardinality(Items)
    /\ phase = "mid"

\* C5: every item has at most one running position tween and at most one
\* running rotation tween, in the group as among the playing tweens, and
\* every tween held in activeTweens is running.
C5_OneTransitionPerItem ==
    /\ \A i \in Items, chan \in {"position", "rotation"} :
          /\ Cardinality(TweensOf(playing, i, chan)) <= 1
          /\ CountIn(group, i, chan) <= 1
          /\ CountIn(activeTweens, i, chan) <= 1
    /\ \A k \in DOMAIN activeTweens :
          activeTweens[k] \in playing /\ activeTweens[k] \in Range(group)

C5_Witness ==
    /\ calls = 2 /\ cur.found = "midflight"
    /\ last.op = "update" /\ phase = "mid"
    /\ \A i \in Items : Cardinality(TweensOf(playing, i, "position")) = 1

\* C6: a transition of duration above 0 started with nothing pending and not
\* superseded: once an update has run at or after its end, every item has
\* exactly the pose of its target and activeTweens is empty, and both stay so.
C6_CompletesExactly ==
    (cur.found = "idle" /\ cur.dur > 0 /\ phase = "end")
    => (AtTargets /\ activeTweens = <<>>)

\* C7: a call of duration above 0 that finds tweens pending leaves every pose
\* as it is, and every tween it starts has the pose of that instant as its
\* starting value.
C7_RestartFromCurrentPose ==
    [][ \A c \in CallArgs :
          (c.duration > 0 /\ Found # "idle" /\ Accepted(c))
          => /\ pose' = pose
             /\ \A k \in DOMAIN activeTweens' :
                   LET tw == activeTweens'[k]
                   IN  tw.from = pose[tw.obj][tw.chan] /\ tw.startTime = now ]_vars

C7_Witness ==
    /\ last.op = "transform" /\ last.res = "started"
    /\ cur.found = "midflight" /\ cur.dur > 0
    /\ Len(activeTweens) = 2 * Cardinality(Items)
    /\ \A i \in Items :
          pose[i].position \notin
              {Zero, LayoutA[i].position, LayoutB[i].position, LayoutC[i].position}

\* C8: for a transition started with nothing pending and not superseded, no
\* update moves an item's position further from its target than it was, and
\* after every update at or past the end the distance is exactly 0.
C8_MonotoneConvergence ==
    /\ [][ (cur.found = "idle" /\ Update)
           => \A j \in ValidIndices :
                 Dist2(pose'[cur.objects[j]].position, cur.targets[j].position)
                    <= Dist2(pose[cur.objects[j]].position, cur.targets[j].position) ]_vars
    /\ []( (cur.found = "idle" /\ phase = "end")
           => \A j \in ValidIndices :
                 Dist2(pose[cur.objects[j]].position, cur.targets[j].position) = 0 )

\* C9: a call whose arrays have the same length but hold a missing item or
\* target at some index is turned away whole: no tween is stopped, none is
\* started, and no pose changes.
C9_MalformedRejectedWhole ==
    [][ \A c \in CallArgs :
          (MalformedPair(c) /\ transform(c.objects, c.targets, c.duration))
          => UNCHANGED Engine ]_vars

\* C10: a call with an empty items array changes no pose, starts no tween and
\* leaves the tweens that are running as they are.
C10_EmptyIsNoOp ==
    [][ \A c \in CallArgs :
          ( /\ c.objects.isArray /\ Len(c.objects.elems) = 0
            /\ transform(c.objects, c.targets, c.duration) )
          => UNCHANGED Engine ]_vars

C10_Witness ==
    /\ last.op = "transform" /\ last.res = "empty"
    /\ Len(activeTweens) = 2 * Cardinality(Items)
    /\ phase = "mid"

-----------------------------------------------------------------------------
(* Properties of the layout generators *)

Generated == last.op = "generateLayoutTargets"

\* C11: for every count >= 0, each of the five layouts of
\* generateLayoutTargets(count) has exactly count poses; for count = 0 every
\* layout is the empty sequence, and the call hands back its result.
C11_CountPoses ==
    (Generated /\ count >= 0)
    => /\ last.ret = "targets"
       /\ \A l \in LAYOUTS :
             l \in DOMAIN layoutTargets /\ Len(layoutTargets[l]) = count

C11_Witness ==
    /\ Generated /\ count > 4 /\ count % 4 = 3
    /\ Len(layoutTargets.tetra) = count /\ Len(layoutTargets.sphere) = count

\* C12: generateLayoutTargets(count) with count < 0 hands its caller an
\* InvalidArgument error and no result.
C12_NegativeCountFails ==
    (Generated /\ count < 0)
    => (last.ret = "InvalidArgument" /\ DOMAIN layoutTargets = {})

C14_TableCells ==
    (Generated /\ count >= 0)
    => /\ \A i \in 0..(count - 1) :
             LET col == i % 20
                 row == i \div 20
                 t == layoutTargets.table[i + 1]
             IN  /\ t.position = <<(col - 10) * 250 + 125, (5 - row) * 320 - 160, 0>>
                 /\ t.rotation = <<0, 0, 0>>
                 /\ (i >= 200) => (row > 9 /\ t.position[2] < -1440)
       /\ count >= 1 => layoutTargets.table[1].position = <<-2375, 1440, 0>>

C14_Witness ==
    /\ Generated /\ count > 200
    /\ layoutTargets.table[201].position = <<-2375, -1760, 0>>
    /\ layoutTargets.table[200].position = <<2375, -1440, 0>>

\* C15: item i of the grid is in cell (i mod 5, floor(i / 5) mod 4,
\* floor(i / 20)) of a lattice centred at the origin with spacings 250, 320
\* and 250; from item 200 on the z index is 10 or more, never wrapped, and
\* two different items never have the same position.
C15_GridCells ==
    (Generated /\ count >= 0)
    => /\ \A i \in 0..(count - 1) :
             LET x == i % 5
                 y == (i \div 5) % 4
                 z == i \div 20
                 t == layoutTargets.grid[i + 1]
             IN  /\ t.position = <<(x - 2) * 250, 480 - y * 320, (z - 5) * 250 + 125>>
                 /\ (i >= 200) => (z > 9 /\ t.position[3] > 1125)
       /\ \A i, j \in 1..count :
             i # j => layoutTargets.grid[i].position # layoutTargets.grid[j].position

C15_Witness ==
    /\ Generated /\ count > 200
    /\ layoutTargets.grid[201].position = <<-500, 480, 1375>>
    /\ layoutTargets.grid[1].position = <<-500, 480, -1125>>

HelixYs == {layoutTargets.helix[i].y : i \in 1..count}
Least(S) == CHOOSE m \in S : \A n \in S : m <= n
Greatest(S) == CHOOSE m \in S : \A n \in S : m >= n

\* C16: item i of the helix is on strand i mod 2 at step k = floor(i / 2), at
\* radius 520 on strand 0 and 480 on strand 1, at height
\* y = 40 * k - 20 * (ceil(count / 2) - 1); for every count >= 1 the smallest
\* and the largest y of the items add up to 0.
C16_HelixCentred ==
    (Generated /\ count >= 1)
    => /\ \A i \in 0..(count - 1) :
             LET t == layoutTargets.helix[i + 1]
             IN  /\ t.strand = i % 2
                 /\ t.k = i \div 2
                 /\ t.radius = IF i % 2 = 0 THEN 520 ELSE 480
                 /\ t.y = 40 * (i \div 2) - 20 * (((count + 1) \div 2) - 1)
       /\ Least(HelixYs) + Greatest(HelixYs) = 0

C16_Witness ==
    /\ Generated /\ count = 7
    /\ Least(HelixYs) = -60 /\ Greatest(HelixYs) = 60
    /\ layoutTargets.helix[count].radius = 520

\* the number of tetra targets on face f
OnFace(f) ==
    Cardinality({i \in 1..Len(layoutTargets.tetra) : layoutTargets.tetra[i].face = f})

\* C17: the count items of the tetra layout are split over the four faces:
\* face f has floor(count / 4) items and one more iff f < count mod 4; the
\* sizes differ by at most 1 and add up to count; the items come face by
\* face in the order of the faces; for count = 4 every face has one item.
C17_TetraSplit ==
    (Generated /\ count >= 0)
    => /\ \A f \in 0..3 :
             OnFace(f) = (count \div 4) + (IF f < count % 4 THEN 1 ELSE 0)
       /\ \A f, g \in 0..3 : OnFace(f) - OnFace(g) <= 1
       /\ OnFace(0) + OnFace(1) + OnFace(2) + OnFace(3) = count
       /\ \A i, j \in 1..Len(layoutTargets.tetra) :
             i < j => layoutTargets.tetra[i].face <= layoutTargets.tetra[j].face
       /\ count = 4 => \A i \in 1..4 : layoutTargets.tetra[i].face = i - 1

C17_Witness ==
    /\ Generated /\ count = 6
    /\ OnFace(0) = 2 /\ OnFace(1) = 2 /\ OnFace(2) = 1 /\ OnFace(3) = 1
    /\ layoutTargets.tetra[5].face = 2

\* 12 times the vector from the centroid of the four vertices to the centroid
\* of face f: the direction that leaves the tetrahedron through the face
Outward(f) ==
    [c \in 1..3 |->
        4 * (vertices[faces[f][1]][c] + vertices[faces[f][2]][c]
                + vertices[faces[f][3]][c])
        - 3 * (vertices[0][c] + vertices[1][c] + vertices[2][c] + vertices[3][c])]

\* C18: on every face the normal the items are pushed along points away from
\* the inside of the tetrahedron: its dot product with the vector from the
\* centroid of the vertices to the centroid of the face is positive, so the
\* push by NORMAL_OFFSET puts every item on the outer side of its face.
C18_NormalsOutward ==
    (Generated /\ count >= 1)
    => \A i \in 1..Len(layoutTargets.tetra) :
          LET t == layoutTargets.tetra[i]
          IN  t.offset * Dot(t.normal, Outward(t.face)) > 0

\* C19: when the call of transform that switchLayout makes is turned away,
\* currentLayout and the button marked active are what they were before the
\* click.
C19_RejectedLeavesUI ==
    [][ \A l \in LAYOUTS :
          ( /\ switchLayout(l)
            /\ last'.op = "transform" /\ last'.res # "started" )
          => (currentLayout' = currentLayout /\ activeButtons' = activeButtons) ]_vars

\* the handlers that made tiles, a scene and the UI
Initialized == {h \in Tokens : handler[h] = "initialized"}

\* C20: whatever the order of the token events and of the answers to their
\* requests, at most one handler makes the tiles, runs initScene and runs
\* initUI: the container never holds two renderers and no button two click
\* listeners.
C20_InitializedOnce ==
    /\ Cardinality(Initialized) <= 1
    /\ renderers <= 1
    /\ listeners <= 1

\* C21: a call of transform touches only the items it is given: a tween that
\* is running for an item outside the call's objects is still in the group
\* and still playing when the call returns.
C21_OnlyItemsPassed ==
    [][ \A c \in CallArgs :
          Accepted(c)
          => \A k \in DOMAIN group :
                group[k].obj \notin Range(c.objects.elems)
                => (group[k] \in Range(group') /\ group[k] \in playing') ]_vars

\* C22: once a click has led to an accepted call of transform, currentLayout
\* names the layout whose targets the last accepted call was given and the
\* button of that layout, and no other, is marked active; a click on the
\* button of the current layout starts no tween and stops none.
C22_CurrentLayoutTracks ==
    /\ []( cur # NoCall
           => /\ currentLayout \in DOMAIN uiTargets
              /\ uiTargets[currentLayout].elems = cur.targets
              /\ activeButtons = {currentLayout} )
    /\ [][ \A l \in LAYOUTS :
             (l = currentLayout /\ switchLayout(l)) => UNCHANGED <<Engine, cur>> ]_vars


\* the replies after which the loop may go on to the next range: a response
\* that is not ok, is neither a 403 nor a 404, and whose message includes
\* 'parse range'
RangeFailures ==
    {r \in Responses : r.kind = "notOk" /\ r.mentions /\ r.status \notin {403, 404}}

\* the same, a status other than 400 never counting
BadRequestRangeFailures ==
    {r \in Responses : r.kind = "notOk" /\ r.mentions /\ r.status = 400}

Terminated == fetchPc \in {"returned", "thrown"}

\* fetchPeopleData, the replies of failures being the range-parsing failures:
\* the requests are a prefix of rangeOptions; every reply but the last is a
\* range-parsing failure; a successful reply is the last one and the call
\* has returned on it; any other failure is the last reply and the call has
\* thrown its error; after four range-parsing failures the call has thrown
\* the error of the last one
FetchContract(failures) ==
    /\ Len(requests) <= 4
    /\ requests = SubSeq(rangeOptions, 1, Len(requests))
    /\ Len(replies) <= Len(requests)
    /\ \A j \in DOMAIN replies :
          LET r == replies[j]
          IN  /\ j < Len(requests) => r \in failures
              /\ r.kind = "ok"
                 => /\ j = Len(requests)
                    /\ fetchPc = "returned"
                    /\ settled.kind = "returned" /\ settled.rows = r.rows
              /\ r.kind # "ok" /\ r \notin failures
                 => /\ j = Len(requests)
                    /\ fetchPc = "thrown"
                    /\ settled = Thrown(thrownInTry(r))
    /\ (Len(replies) = 4 /\ replies[4] \in failures)
       => /\ fetchPc = "thrown"
          /\ lastError # NoError
          /\ lastError.mentions /\ lastError.status = replies[4].status
          /\ settled = Thrown(lastError)

CountedSamples ==
    {j \in 1..Len(layoutTargets.tetra) :
        layoutTargets.tetra[j].sample.uRaw[2] <= Pow2(MantBits)}

\* the sample of target t is in range and its weights are not negative
SampleInRange(t) ==
    /\ t.sample.uRaw[2] >= 1
    /\ 0 <= t.sample.uRaw[1] /\ t.sample.uRaw[1] < t.sample.uRaw[2]
    /\ 0 <= t.sample.vRaw[1] /\ t.sample.vRaw[1] < t.sample.vRaw[2]
    /\ 0 <= t.weights.uRaw /\ t.weights.uRaw < WeightOne
    /\ 0 <= t.weights.vRaw /\ t.weights.vRaw < WeightOne
    /\ t.weights.weightA >= 0 /\ t.weights.weightB >= 0 /\ t.weights.weightC >= 0

WeightSum(t) == t.weights.weightA + t.weights.weightB + t.weights.weightC

\* C24: for every face with n >= 1 items and every i < n the Hammersley pair
\* has 0 <= uRaw = i / n < 1 and 0 <= vRaw < 1, the weights 1 - u, u - v and
\* v are not negative, and they add up to 1 to within the rounding of the two
\* subtractions, 2^-MantBits at most
C24_WeightsInTriangle ==
    Generated
    => \A j \in CountedSamples :
          /\ SampleInRange(layoutTargets.tetra[j])
          /\ Abs(WeightSum(layoutTargets.tetra[j]) - WeightOne)
                <= WeightOne \div Pow2(MantBits)

\* C24 as stated, the weights adding up to 1 exactly
C24_Original ==
    Generated
    => \A j \in CountedSamples :
          /\ SampleInRange(layoutTargets.tetra[j])
          /\ WeightSum(layoutTargets.tetra[j]) = WeightOne

\* twelve items, three on each face: the third sample of face 0 has its three
\* weights positive and their sum is not 1
C24_Witness ==
    /\ Generated /\ count = 12
    /\ 3 \in CountedSamples
    /\ layoutTargets.tetra[3].sample.uRaw = <<2, 3>>
    /\ layoutTargets.tetra[3].weights.weightA > 0
    /\ layoutTargets.tetra[3].weights.weightB > 0
    /\ layoutTargets.tetra[3].weights.weightC > 0
    /\ WeightSum(layoutTargets.tetra[3]) # WeightOne


\* C25: for every count >= 1 and every i < count the value -1 + 2 * i / count
\* passed to acos lies in [-1, 1) - as a fraction for every count, as the
\* number computed for every count the numbers count exactly - so no sphere
\* pose is NaN, and item 0 has argument exactly -1 whatever the count
C25_AcosInDomain ==
    (Generated /\ count >= 1)
    => /\ \A j \in 1..Len(layoutTargets.sphere) :
             LET t == layoutTargets.sphere[j]
             IN  /\ 0 - t.cosPhi[2] <= t.cosPhi[1] /\ t.cosPhi[1] < t.cosPhi[2]
                 /\ ~t.isNaN
                 /\ count <= Pow2(MantBits) => (0 - ONE <= t.arg /\ t.arg < ONE)
       /\ layoutTargets.sphere[1].cosPhi[1] = 0 - layoutTargets.sphere[1].cosPhi[2]
       /\ layoutTargets.sphere[1].arg = 0 - ONE

\* five items: the first at the pole, the last at 3 / 5, below 1
C25_Witness ==
    /\ Generated /\ count = 5
    /\ layoutTargets.sphere[1].cosPhi = <<0 - 5, 5>>
    /\ layoutTargets.sphere[1].arg = 0 - ONE
    /\ layoutTargets.sphere[5].cosPhi = <<3, 5>>
    /\ layoutTargets.sphere[5].arg < ONE
    /\ ~layoutTargets.sphere[5].isNaN

====
